---- MODULE Spec2Model ----
(***************************************************************************)
(* Model of uust_schedule (src/src/uust_schedule/__init__.py):             *)
(*   - the academic calendar calculator                                    *)
(*       Schedule.get_start_datetime_of_academic_year                      *)
(*       Schedule.get_semester_type                                        *)
(*   - the schedule fetcher/parser  Schedule.get_events (a generator)      *)
(*                                                                         *)
(* A datetime is a record [ordinal, minute, tzinfo]: the proleptic         *)
(* Gregorian ordinal of its date (datetime.date.toordinal), the minute of  *)
(* its day and its tzinfo.  Every datetime of the program carries the same *)
(* tzinfo object TZ_INFO, and Python's arithmetic and comparison of        *)
(* datetimes that share one tzinfo are wall-clock operations.              *)
(* A timedelta is its length in minutes.                                   *)
(*                                                                         *)
(* Strings are ASCII: the seven Russian weekday names of the source are    *)
(* written in Latin transliteration.                                       *)
(***************************************************************************)
EXTENDS Integers, Sequences, FiniteSets, TLC

VARIABLES
    \* ---- calendar calculator: the last call of a static method
    cal_fn,                 \* "none" | "get_start_datetime_of_academic_year" | "get_semester_type"
    cal_arg,                \* its argument: a year, or a date [year, month, day]
    cal_ret,                \* its return value, or the name of the exception raised
    \* ---- Schedule instance
    academic_year,
    start_datetime_of_academic_year,
    \* ---- one invocation of Schedule.get_events
    pc,                     \* position of the generator
    gets,                   \* number of session.get calls issued
    status,                 \* HTTP status of the response (0: no response yet)
    soup,                   \* the rows selected by soup.select("tbody tr")
    row_idx,                \* 1-based index of the row the for loop is at
    weekday_index,
    start_timedelta,
    end_timedelta,
    week_tokens,            \* row_columns[2].text.split()
    week_idx,               \* 1-based position of the inner for loop
    events,                 \* the Events yielded so far, in order
    origin,                 \* history: for each yielded Event, its row, its position in the
                            \* week list and the weekday_index it was built with
    error                   \* exception that ended the invocation ("" : none)

vars == <<cal_fn, cal_arg, cal_ret, academic_year, start_datetime_of_academic_year,
          pc, gets, status, soup, row_idx, weekday_index, start_timedelta,
          end_timedelta, week_tokens, week_idx, events, origin, error>>

calVars == <<cal_fn, cal_arg, cal_ret>>
schedVars == <<academic_year, start_datetime_of_academic_year>>
genVars == <<pc, gets, status, soup, row_idx, weekday_index, start_timedelta,
             end_timedelta, week_tokens, week_idx, events, origin, error>>

-----------------------------------------------------------------------------
(* Bounds *)

MinYear == 1895
MaxYear == 2104
MaxRows == 3

-----------------------------------------------------------------------------
(* Module constants and enums *)

TZ_NAME == "Asia/Yekaterinburg"
TZ_INFO == TZ_NAME

AUTUMN == "AUTUMN"
SPRING == "SPRING"
SemesterTypeNotFoundError == "SemesterTypeNotFoundError"

-----------------------------------------------------------------------------
(* datetime library: dates, datetimes, timedeltas *)

IsLeap(y) == (y % 4 = 0) /\ ((y % 100 # 0) \/ (y % 400 = 0))

DaysInMonth(y, m) ==
    IF m = 2 THEN (IF IsLeap(y) THEN 29 ELSE 28)
    ELSE IF m \in {4, 6, 9, 11} THEN 30 ELSE 31

DaysBeforeYear(y) ==
    (y - 1) * 365 + ((y - 1) \div 4) - ((y - 1) \div 100) + ((y - 1) \div 400)

RECURSIVE DaysBeforeMonth(_, _)
DaysBeforeMonth(y, m) ==
    IF m = 1 THEN 0 ELSE DaysBeforeMonth(y, m - 1) + DaysInMonth(y, m - 1)

\* datetime.date(y, m, d).toordinal()
Ymd2Ord(y, m, d) == DaysBeforeYear(y) + DaysBeforeMonth(y, m) + d

\* datetime.datetime(y, m, d, hh, mm, tzinfo=TZ_INFO)
DateTime(y, m, d, hh, mm) ==
    [ordinal |-> Ymd2Ord(y, m, d), minute |-> hh * 60 + mm, tzinfo |-> TZ_INFO]

\* datetime.weekday(): Monday is 0, Sunday is 6
Weekday(dt) == (dt.ordinal + 6) % 7

\* datetime.timedelta(weeks=, days=, hours=, minutes=), in minutes
Timedelta(weeks, days, hours, minutes) ==
    ((weeks * 7 + days) * 24 + hours) * 60 + minutes

\* datetime + timedelta
AddTimedelta(dt, td) ==
    LET total == dt.ordinal * 1440 + dt.minute + td
    IN  [ordinal |-> total \div 1440, minute |-> total % 1440, tzinfo |-> dt.tzinfo]

\* datetime - timedelta
SubTimedelta(dt, td) == AddTimedelta(dt, 0 - td)

\* datetime < datetime, both with the same tzinfo
DateTimeLess(a, b) ==
    (a.ordinal < b.ordinal) \/ (a.ordinal = b.ordinal /\ a.minute < b.minute)

\* datetime.date(): the date, as its ordinal
DateOf(dt) == dt.ordinal

\* a datetime.date value given as [year, month, day], as its ordinal
DateOrd(d) == Ymd2Ord(d.year, d.month, d.day)

-----------------------------------------------------------------------------
(* Academic calendar calculator *)

\* mutant: subtracts isoweekday() (Monday is 1) instead of weekday()
get_start_datetime_of_academic_year_iso(year) ==
    LET first_september == DateTime(year, 9, 1, 0, 0)
    IN  SubTimedelta(first_september, Timedelta(0, Weekday(first_september) + 1, 0, 0))

get_start_datetime_of_academic_year(year) ==
    LET first_september_datetime_of_academic_year == DateTime(year, 9, 1, 0, 0)
    IN  SubTimedelta(first_september_datetime_of_academic_year,
                     Timedelta(0, Weekday(first_september_datetime_of_academic_year), 0, 0))

\* mutant: compares with the start of the next academic year first
get_semester_type_swapped(reference_date) ==
    LET start_of_year ==
            get_start_datetime_of_academic_year(reference_date.year)
        start_of_next_year ==
            get_start_datetime_of_academic_year(reference_date.year + 1)
    IN  IF DateOrd(reference_date) < DateOf(start_of_next_year)
        THEN SPRING
        ELSE IF DateOrd(reference_date) >= DateOf(start_of_year)
        THEN AUTUMN
        ELSE SemesterTypeNotFoundError

\* mutant: the second comparison takes the previous academic year's start
get_semester_type_prev_year(reference_date) ==
    LET start_of_year ==
            get_start_datetime_of_academic_year(reference_date.year)
        start_of_prev_year ==
            get_start_datetime_of_academic_year(reference_date.year - 1)
    IN  IF DateOrd(reference_date) >= DateOf(start_of_year)
        THEN AUTUMN
        ELSE IF DateOrd(reference_date) < DateOf(start_of_prev_year)
        THEN SPRING
        ELSE SemesterTypeNotFoundError

get_semester_type(reference_date) ==
    LET start_of_year ==
            get_start_datetime_of_academic_year(reference_date.year)
        start_of_next_year ==
            get_start_datetime_of_academic_year(reference_date.year + 1)
    IN  IF DateOrd(reference_date) >= DateOf(start_of_year)
        THEN AUTUMN
        ELSE IF DateOrd(reference_date) < DateOf(start_of_next_year)
        THEN SPRING
        ELSE SemesterTypeNotFoundError

-----------------------------------------------------------------------------
(* str and list operations used by get_events *)

Char(s, i) == SubSeq(s, i, i)

\* s.split(sep) for a one-character sep: every piece, the empty ones included
RECURSIVE SplitFrom(_, _, _, _)
SplitFrom(s, sep, i, piece) ==
    IF i > Len(s) THEN <<piece>>
    ELSE IF Char(s, i) = sep THEN <<piece>> \o SplitFrom(s, sep, i + 1, "")
    ELSE SplitFrom(s, sep, i + 1, piece \o Char(s, i))

Split(s, sep) == SplitFrom(s, sep, 1, "")

\* s.split(): pieces between runs of whitespace, no empty piece
SplitWhitespace(s) == SelectSeq(Split(s, " "), LAMBDA t : t # "")

DIGITS == "0123456789"

IsDigit(c) == \E i \in 1..10 : Char(DIGITS, i) = c

DigitVal(c) == (CHOOSE i \in 1..10 : Char(DIGITS, i) = c) - 1

HasSign(s) == Len(s) > 0 /\ Char(s, 1) \in {"+", "-"}

Unsigned(s) == IF HasSign(s) THEN SubSeq(s, 2, Len(s)) ELSE s

\* whether int(s) returns (an optional sign, then one or more decimal digits)
IsInt(s) ==
    /\ Len(Unsigned(s)) > 0
    /\ \A i \in 1..Len(Unsigned(s)) : IsDigit(Char(Unsigned(s), i))

RECURSIVE DigitsVal(_, _)
DigitsVal(s, n) ==
    IF n = 0 THEN 0 ELSE DigitsVal(s, n - 1) * 10 + DigitVal(Char(s, n))

\* int(s), for IsInt(s)
ParseInt(s) ==
    LET v == DigitsVal(Unsigned(s), Len(Unsigned(s)))
    IN  IF HasSign(s) /\ Char(s, 1) = "-" THEN 0 - v ELSE v

\* whether x is an element of the list
Contains(list, x) == \E i \in 1..Len(list) : list[i] = x

\* list.index(x): the 0-based index of the first x, for Contains(list, x)
Index(list, x) ==
    (CHOOSE i \in 1..Len(list) :
        list[i] = x /\ \A j \in 1..(i - 1) : list[j] # x) - 1

-----------------------------------------------------------------------------
(* Inputs: the academic years, the HTTP responses and the tables served *)

AcademicYears == {2023, 2024}

\* response.status_code; raise_for_status raises for 400 <= status_code < 600
StatusCodes == {200, 404, 503}

\* the weekday names row_columns[0].text is looked up in (transliterated)
WEEKDAY_NAMES ==
    <<"Ponedelnik", "Vtornik", "Sreda", "Chetverg", "Pyatnitsa", "Subbota", "Voskresenye">>

Row(class, cells) == [class |-> class, cells |-> cells]

DataCells(day, time, weeks, n) ==
    <<day, time, weeks, "name" \o n, "event_type" \o n, "fio" \o n,
      "location" \o n, "comment" \o n>>

\* the rows of the table of test_get_schedule_events
TestRow0 == Row({"dayheader"}, DataCells("Ponedelnik", "08:00-09:20", "1", "0"))
TestRow6 == Row({"extra"}, DataCells("", "22:55-23:00", "52", "1"))
NoInfoHeader(day) == Row({"noinfo", "dayheader"}, <<day>>)

TestTable ==
    <<TestRow0, NoInfoHeader("Vtornik"), NoInfoHeader("Sreda"), NoInfoHeader("Chetverg"),
      NoInfoHeader("Pyatnitsa"), NoInfoHeader("Subbota"), TestRow6>>

\* the rows the bounded tables are built from
RowPool ==
    { TestRow0,
      TestRow6,
      NoInfoHeader("Pyatnitsa"),
      NoInfoHeader("Subbota"),
      \* a row listing several weeks, not in increasing order
      Row({"extra"}, DataCells("", "09:35-10:55", "3 1  5", "2")),
      \* a header row that is a data row too, ending before it starts
      Row({"dayheader"}, DataCells("Voskresenye", "11:35-09:35", "2 2", "3")),
      \* a noinfo row with the cells of a data row
      Row({"noinfo"}, DataCells("", "13:10-14:30", "1 2", "4")),
      \* a noinfo header row with the cells of a data row
      Row({"noinfo", "dayheader"}, DataCells("Sreda", "15:10-16:30", "4", "5")),
      \* a header row naming no weekday
      Row({"dayheader"}, DataCells("Monday", "08:00-09:20", "1", "6")),
      \* rows the parser rejects: time column, week column, missing cells
      Row({"extra"}, DataCells("", "0800-0920", "1", "7")),
      Row({"extra"}, DataCells("", "08:00-09:20", "1 x", "8")),
      Row({"extra"}, <<"", "16:45-18:05", "7">>) }

Tables == (UNION { [1..n -> RowPool] : n \in 0..MaxRows }) \cup {TestTable}

-----------------------------------------------------------------------------
(* Schedule.get_events, row by row *)

Event(title, event_type, participant, location, comment, start_dt, end_dt) ==
    [title |-> title, event_type |-> event_type, participant |-> participant,
     location |-> location, comment |-> comment,
     start_datetime |-> start_dt, end_datetime |-> end_dt]

\* mutant: a noinfo row leaves weekday_index alone
HeaderStep_not_on_noinfo(row, wi) ==
    IF "dayheader" \notin row.class \/ "noinfo" \in row.class
    THEN [exc |-> "", weekday_index |-> wi]
    ELSE IF Len(row.cells) < 1 THEN [exc |-> "IndexError", weekday_index |-> wi]
    ELSE IF ~Contains(WEEKDAY_NAMES, row.cells[1])
    THEN [exc |-> "ValueError", weekday_index |-> wi]
    ELSE [exc |-> "", weekday_index |-> Index(WEEKDAY_NAMES, row.cells[1])]

\* the outcome of lines 197-206 on a row: the new weekday_index, or the exception
HeaderStep(row, wi) ==
    IF "dayheader" \notin row.class THEN [exc |-> "", weekday_index |-> wi]
    ELSE IF Len(row.cells) < 1 THEN [exc |-> "IndexError", weekday_index |-> wi]
    ELSE IF ~Contains(WEEKDAY_NAMES, row.cells[1])
    THEN [exc |-> "ValueError", weekday_index |-> wi]
    ELSE [exc |-> "", weekday_index |-> Index(WEEKDAY_NAMES, row.cells[1])]

\* list(map(int, time.split(":"))) returns
TimeListOk(time) == \A i \in 1..Len(Split(time, ":")) : IsInt(Split(time, ":")[i])

TimeList(time) == [i \in 1..Len(Split(time, ":")) |-> ParseInt(Split(time, ":")[i])]

\* the outcome of lines 211-213 on a data row: the two timedeltas, or the exception
TimeStep(row) ==
    IF Len(row.cells) < 2 THEN [exc |-> "IndexError", start |-> 0, end |-> 0]
    ELSE
      LET parts == Split(row.cells[2], "-")
      IN  IF Len(parts) # 2 \/ \E i \in 1..Len(parts) : ~TimeListOk(parts[i])
          THEN [exc |-> "ValueError", start |-> 0, end |-> 0]
          ELSE
            LET start_time == TimeList(parts[1])
                end_time == TimeList(parts[2])
            IN  IF Len(start_time) < 2 \/ Len(end_time) < 2
                THEN [exc |-> "IndexError", start |-> 0, end |-> 0]
                ELSE [exc |-> "",
                      start |-> Timedelta(0, 0, start_time[1], start_time[2]),
                      end |-> Timedelta(0, 0, end_time[1], end_time[2])]

\* mutant: the week number taken as 0-based
WeekTimedelta_zero_based(week_number, wi) == Timedelta(week_number, wi, 0, 0)

\* mutant: the week number counted in days
WeekTimedelta_in_days(week_number, wi) == Timedelta(0, week_number - 1 + wi, 0, 0)

\* mutant: the weekday counted from 1
WeekTimedelta_iso_weekday(week_number, wi) == Timedelta(week_number - 1, wi + 1, 0, 0)

\* week_timedelta of line 215
WeekTimedelta(week_number, wi) == Timedelta(week_number - 1, wi, 0, 0)

\* mutant: end_datetime built from the start time
MakeEvent_end_from_start(row, week_number, wi, start_td, end_td, base) ==
    Event(row.cells[4], row.cells[5], row.cells[6], row.cells[7], row.cells[8],
          AddTimedelta(AddTimedelta(base, WeekTimedelta(week_number, wi)), start_td),
          AddTimedelta(AddTimedelta(base, WeekTimedelta(week_number, wi)), start_td))

\* the Event of lines 215-227
MakeEvent(row, week_number, wi, start_td, end_td, base) ==
    Event(row.cells[4], row.cells[5], row.cells[6], row.cells[7], row.cells[8],
          AddTimedelta(AddTimedelta(base, WeekTimedelta(week_number, wi)), start_td),
          AddTimedelta(AddTimedelta(base, WeekTimedelta(week_number, wi)), end_td))

\* mutant: a header row is never skipped (the two class tests made exclusive)
IsNoInfo_unless_header(row) == "noinfo" \in row.class /\ "dayheader" \notin row.class

\* line 208: the row is skipped
IsNoInfo(row) == "noinfo" \in row.class

\* mutant: raise_for_status left out
RaisesForStatus_never(code) == FALSE

\* response.raise_for_status() raises HTTPError (line 190)
RaisesForStatus(code) == code >= 400 /\ code < 600

Raise(exc) ==
    /\ pc' = "raised"
    /\ error' = exc

\* lines 173-193: the request, raise_for_status and the selection of the rows.
\* semester_type is None or a member of SemesterType, so line 176 returns; the query
\* parameters built from it do not influence the parsing and are not part of the state.
Fetch ==
    /\ pc = "start"
    /\ gets' = gets + 1
    /\ \/ \* session.get raises: no response within request_timeout
          /\ Raise("Timeout")
          /\ UNCHANGED <<status, soup, row_idx, weekday_index>>
       \/ \E code \in StatusCodes :
          /\ status' = code
          /\ IF RaisesForStatus(code)
             THEN /\ Raise("HTTPError")
                  /\ UNCHANGED <<soup, row_idx, weekday_index>>
             ELSE /\ \E table \in Tables : soup' = table
                  /\ pc' = "rows"
                  /\ row_idx' = 1
                  /\ weekday_index' = 0
                  /\ error' = error
    /\ UNCHANGED <<start_timedelta, end_timedelta, week_tokens, week_idx, events, origin>>
    /\ UNCHANGED <<calVars, schedVars>>

\* lines 194-214: one row of the for loop, up to the inner loop
ProcessRow ==
    /\ pc = "rows"
    /\ row_idx <= Len(soup)
    /\ LET row == soup[row_idx]
           h == HeaderStep(row, weekday_index)
           t == TimeStep(row)
       IN  /\ weekday_index' = h.weekday_index
           /\ IF h.exc # ""
              THEN /\ Raise(h.exc)
                   /\ UNCHANGED <<row_idx, start_timedelta, end_timedelta, week_tokens, week_idx>>
              ELSE IF IsNoInfo(row)
              THEN /\ row_idx' = row_idx + 1
                   /\ UNCHANGED <<pc, error, start_timedelta, end_timedelta, week_tokens, week_idx>>
              ELSE IF t.exc # ""
              THEN /\ Raise(t.exc)
                   /\ UNCHANGED <<row_idx, start_timedelta, end_timedelta, week_tokens, week_idx>>
              ELSE IF Len(row.cells) < 3
              THEN /\ Raise("IndexError")
                   /\ start_timedelta' = t.start
                   /\ end_timedelta' = t.end
                   /\ UNCHANGED <<row_idx, week_tokens, week_idx>>
              ELSE /\ start_timedelta' = t.start
                   /\ end_timedelta' = t.end
                   /\ week_tokens' = SplitWhitespace(row.cells[3])
                   /\ week_idx' = 1
                   /\ pc' = "weeks"
                   /\ UNCHANGED <<row_idx, error>>
    /\ UNCHANGED <<gets, status, soup, events, origin>>
    /\ UNCHANGED <<calVars, schedVars>>

\* lines 214-227: one iteration of the inner loop, which yields an Event
YieldEvent ==
    /\ pc = "weeks"
    /\ week_idx <= Len(week_tokens)
    /\ LET row == soup[row_idx]
           token == week_tokens[week_idx]
       IN  IF ~IsInt(token)
           THEN /\ Raise("ValueError")
                /\ UNCHANGED <<week_idx, events, origin>>
           ELSE IF Len(row.cells) < 8
           THEN /\ Raise("IndexError")
                /\ UNCHANGED <<week_idx, events, origin>>
           ELSE /\ events' = Append(events,
                        MakeEvent(row, ParseInt(token), weekday_index, start_timedelta,
                                  end_timedelta, start_datetime_of_academic_year))
                /\ origin' = Append(origin, [row |-> row_idx, k |-> week_idx,
                                            weekday_index |-> weekday_index])
                /\ week_idx' = week_idx + 1
                /\ UNCHANGED <<pc, error>>
    /\ UNCHANGED <<gets, status, soup, row_idx, weekday_index, start_timedelta,
                   end_timedelta, week_tokens>>
    /\ UNCHANGED <<calVars, schedVars>>

\* line 214: the week list is exhausted, the outer loop takes the next row
EndRow ==
    /\ pc = "weeks"
    /\ week_idx > Len(week_tokens)
    /\ pc' = "rows"
    /\ row_idx' = row_idx + 1
    /\ UNCHANGED <<gets, status, soup, weekday_index, start_timedelta, end_timedelta,
                   week_tokens, week_idx, events, origin, error>>
    /\ UNCHANGED <<calVars, schedVars>>

\* line 194: the rows are exhausted, the generator returns
Finish ==
    /\ pc = "rows"
    /\ row_idx > Len(soup)
    /\ pc' = "done"
    /\ UNCHANGED <<gets, status, soup, row_idx, weekday_index, start_timedelta,
                   end_timedelta, week_tokens, week_idx, events, origin, error>>
    /\ UNCHANGED <<calVars, schedVars>>

GenInit ==
    /\ pc = "start"
    /\ gets = 0
    /\ status = 0
    /\ soup = <<>>
    /\ row_idx = 0
    /\ weekday_index = 0
    /\ start_timedelta = 0
    /\ end_timedelta = 0
    /\ week_tokens = <<>>
    /\ week_idx = 0
    /\ events = <<>>
    /\ origin = <<>>
    /\ error = ""

CalIdle ==
    /\ cal_fn = "none"
    /\ cal_arg = 0
    /\ cal_ret = 0

\* Schedule.__init__ (lines 101-106), then get_events called on the instance
Init ==
    /\ academic_year \in AcademicYears
    /\ start_datetime_of_academic_year = get_start_datetime_of_academic_year(academic_year)
    /\ GenInit
    /\ CalIdle

Next == Fetch \/ ProcessRow \/ YieldEvent \/ EndRow \/ Finish

Spec == Init /\ [][Next]_vars

-----------------------------------------------------------------------------
(* The calendar calculator called on its own: one call of a static method *)

Years == MinYear..MaxYear

Dates ==
    { [year |-> y, month |-> m, day |-> d] :
        y \in Years, m \in 1..12, d \in 1..31 }

ValidDates == { d \in Dates : d.day <= DaysInMonth(d.year, d.month) }

CallGetStartDatetimeOfAcademicYear ==
    /\ cal_fn = "none"
    /\ \E year \in Years :
        /\ cal_fn' = "get_start_datetime_of_academic_year"
        /\ cal_arg' = year
        /\ cal_ret' = get_start_datetime_of_academic_year(year)
    /\ UNCHANGED <<schedVars, genVars>>

CallGetSemesterType ==
    /\ cal_fn = "none"
    /\ \E reference_date \in ValidDates :
        /\ cal_fn' = "get_semester_type"
        /\ cal_arg' = reference_date
        /\ cal_ret' = get_semester_type(reference_date)
    /\ UNCHANGED <<schedVars, genVars>>

CalInit ==
    /\ CalIdle
    /\ academic_year = 2023
    /\ start_datetime_of_academic_year = get_start_datetime_of_academic_year(academic_year)
    /\ GenInit

CalNext == CallGetStartDatetimeOfAcademicYear \/ CallGetSemesterType

CalSpec == CalInit /\ [][CalNext]_vars

-----------------------------------------------------------------------------
(* Properties of the calendar calculator (checked under CalSpec) *)

\* 2023-08-28 is a Monday (test_get_start_datetime_of_academic_year): a date is a
\* Monday iff it lies a whole number of weeks from it
IsMonday(ord) == (ord - Ymd2Ord(2023, 8, 28)) % 7 = 0

\* the Monday on or before September 1 of year, as an ordinal
MondayOnOrBeforeSept1(year) ==
    CHOOSE o \in (Ymd2Ord(year, 9, 1) - 6)..Ymd2Ord(year, 9, 1) : IsMonday(o)

\* C1: for every academic year Y, get_start_datetime_of_academic_year(Y) is at local
\* midnight in the fixed timezone, on a Monday, on or before September 1 of Y and
\* strictly after August 25 of Y; for 2023 it is 2023-08-28T00:00.
C1_StartOfAcademicYear ==
    cal_fn = "get_start_datetime_of_academic_year" =>
        /\ cal_ret.minute = 0
        /\ cal_ret.tzinfo = TZ_INFO
        /\ IsMonday(cal_ret.ordinal)
        /\ Weekday(cal_ret) = 0
        /\ cal_ret.ordinal <= Ymd2Ord(cal_arg, 9, 1)
        /\ cal_ret.ordinal > Ymd2Ord(cal_arg, 8, 25)
        /\ cal_ret.ordinal = MondayOnOrBeforeSept1(cal_arg)
        /\ (cal_arg = 2023 => cal_ret = DateTime(2023, 8, 28, 0, 0))

\* a year whose September 1 is a Sunday (the start lies 6 days back, on August 26)
C1_Witness ==
    /\ cal_fn = "get_start_datetime_of_academic_year"
    /\ cal_arg = 2024
    /\ cal_ret = DateTime(2024, 8, 26, 0, 0)

\* C2: get_semester_type(d) is AUTUMN when d is on or after the date of the start of
\* the academic year d.year and SPRING when d is before it; 2023-08-28 is AUTUMN and
\* 2024-08-25 is SPRING.
C2_SemesterType ==
    cal_fn = "get_semester_type" =>
        /\ DateOrd(cal_arg) >= MondayOnOrBeforeSept1(cal_arg.year) => cal_ret = AUTUMN
        /\ DateOrd(cal_arg) < MondayOnOrBeforeSept1(cal_arg.year) => cal_ret = SPRING
        /\ cal_arg = [year |-> 2023, month |-> 8, day |-> 28] => cal_ret = AUTUMN
        /\ cal_arg = [year |-> 2024, month |-> 8, day |-> 25] => cal_ret = SPRING

\* the day before the 2024 academic year starts
C2_Witness ==
    /\ cal_fn = "get_semester_type"
    /\ cal_arg = [year |-> 2024, month |-> 8, day |-> 25]
    /\ cal_ret = SPRING

\* C8: get_semester_type raises SemesterTypeNotFoundError for no reference date: a date
\* before the start of the academic year d.year is also before the start of the
\* academic year d.year + 1.
C8_NoSemesterTypeNotFoundError ==
    cal_fn = "get_semester_type" =>
        /\ cal_ret # SemesterTypeNotFoundError
        /\ cal_ret \in {AUTUMN, SPRING}
        /\ DateOrd(cal_arg) < MondayOnOrBeforeSept1(cal_arg.year)
              => DateOrd(cal_arg) < MondayOnOrBeforeSept1(cal_arg.year + 1)

\* a date that takes the second branch: the last day before an academic year starts
C8_Witness ==
    /\ cal_fn = "get_semester_type"
    /\ DateOrd(cal_arg) = MondayOnOrBeforeSept1(cal_arg.year) - 1
    /\ DateOrd(cal_arg) < MondayOnOrBeforeSept1(cal_arg.year + 1)
    /\ cal_ret = SPRING

-----------------------------------------------------------------------------
(* Properties of get_events (checked under Spec) *)

\* the weekday a name of the site stands for
DayNumber(name) ==
    CASE name = "Ponedelnik" -> 0
      [] name = "Vtornik" -> 1
      [] name = "Sreda" -> 2
      [] name = "Chetverg" -> 3
      [] name = "Pyatnitsa" -> 4
      [] name = "Subbota" -> 5
      [] name = "Voskresenye" -> 6

SetMax(S) == CHOOSE x \in S : \A y \in S : y <= x

\* the dayheader rows at or before row r, noinfo rows and row r itself included
HeaderRowsUpTo(table, r) == { j \in 1..r : "dayheader" \in table[j].class }

\* the name in the most recent of them ("" when there is none)
GoverningName(table, r) ==
    IF HeaderRowsUpTo(table, r) = {} THEN ""
    ELSE table[SetMax(HeaderRowsUpTo(table, r))].cells[1]

GoverningWeekday(table, r) ==
    IF HeaderRowsUpTo(table, r) = {} THEN 0 ELSE DayNumber(GoverningName(table, r))

\* a time column of the form HH:MM-HH:MM
IsHHMM(s) ==
    /\ Len(s) = 11
    /\ \A i \in {1, 2, 4, 5, 7, 8, 10, 11} : IsDigit(Char(s, i))
    /\ Char(s, 3) = ":" /\ Char(s, 9) = ":" /\ Char(s, 6) = "-"

TwoDigits(s, i) == DigitVal(Char(s, i)) * 10 + DigitVal(Char(s, i + 1))

\* its start and end time of day, in minutes
StartOfDay(s) == TwoDigits(s, 1) * 60 + TwoDigits(s, 4)
EndOfDay(s) == TwoDigits(s, 7) * 60 + TwoDigits(s, 10)

\* the number of week numbers a week column lists
CountListed(s) ==
    Cardinality({ i \in 1..Len(s) : Char(s, i) # " " /\ (i = 1 \/ Char(s, i - 1) = " ") })

\* the k-th week number a week column lists
ListedWeek(s, k) == ParseInt(SplitWhitespace(s)[k])

\* start of the academic year + (w - 1) weeks + wd days + a time of day
ExpectedDateTime(year, w, wd, time_of_day) ==
    [ordinal |-> MondayOnOrBeforeSept1(year) + 7 * (w - 1) + wd + (time_of_day \div 1440),
     minute |-> time_of_day % 1440,
     tzinfo |-> TZ_INFO]

\* the Events yielded for row r, by their position in the output
EventsOfRow(r) == { i \in 1..Len(events) : origin[i].row = r }

\* the rows the for loop is through with
DoneRows == 1..(row_idx - 1)

IsDataRow(row) == "noinfo" \notin row.class

\* C3: for every data row with time column HH:MM-HH:MM and every week number w it
\* lists, an Event is yielded whose start (end) is the start of the academic year
\* + (w - 1) weeks + weekday_index days + the start (end) time of day; the Monday
\* header row at 08:00-09:20, week 1, of academic year 2023 yields exactly one Event,
\* from 2023-08-28T08:00 to 2023-08-28T09:20.
C3_EventDatetimes ==
    /\ \A i \in 1..Len(events) :
        LET row == soup[origin[i].row]
            w == ListedWeek(row.cells[3], origin[i].k)
        IN  /\ IsDataRow(row)
            /\ IsHHMM(row.cells[2]) =>
                /\ events[i].start_datetime =
                     ExpectedDateTime(academic_year, w, origin[i].weekday_index,
                                      StartOfDay(row.cells[2]))
                /\ events[i].end_datetime =
                     ExpectedDateTime(academic_year, w, origin[i].weekday_index,
                                      EndOfDay(row.cells[2]))
    /\ \A r \in DoneRows :
        IsDataRow(soup[r]) =>
            \A k \in 1..CountListed(soup[r].cells[3]) :
                \E i \in EventsOfRow(r) : origin[i].k = k
    /\ \A r \in DoneRows :
        (academic_year = 2023 /\ soup[r] = TestRow0) =>
            \E i \in 1..Len(events) :
                /\ EventsOfRow(r) = {i}
                /\ events[i].start_datetime = DateTime(2023, 8, 28, 8, 0)
                /\ events[i].end_datetime = DateTime(2023, 8, 28, 9, 20)

\* the table of the test's first row alone, parsed to the end
C3_Witness ==
    /\ pc = "done"
    /\ academic_year = 2023
    /\ soup = <<TestRow0>>
    /\ Len(events) = 1
    /\ events[1].start_datetime = DateTime(2023, 8, 28, 8, 0)
    /\ events[1].end_datetime = DateTime(2023, 8, 28, 9, 20)

\* C4 as stated: for academic year 2023 a data row governed by a Pyatnitsa (Friday)
\* header, at 22:55-23:00, week 52, yields an Event that starts at 2024-08-24T22:55.
C4_FridayRowStartsAug24 ==
    \A i \in 1..Len(events) :
        LET row == soup[origin[i].row]
        IN  ( /\ academic_year = 2023
              /\ GoverningName(soup, origin[i].row) = "Pyatnitsa"
              /\ row.cells[2] = "22:55-23:00"
              /\ row.cells[3] = "52" )
            => events[i].start_datetime = DateTime(2024, 8, 24, 22, 55)

\* C4 amended: for academic year 2023 a data row at 22:55-23:00, week 52, yields an
\* Event that starts at 2024-08-24T22:55 when its governing header is Subbota
\* (Saturday), as in the table of the test, and at 2024-08-23T22:55 when it is
\* Pyatnitsa (Friday).
C4_SaturdayRowStartsAug24 ==
    \A i \in 1..Len(events) :
        LET row == soup[origin[i].row]
        IN  ( /\ academic_year = 2023
              /\ row.cells[2] = "22:55-23:00"
              /\ row.cells[3] = "52" )
            => /\ GoverningName(soup, origin[i].row) = "Subbota"
                    => events[i].start_datetime = DateTime(2024, 8, 24, 22, 55)
               /\ GoverningName(soup, origin[i].row) = "Pyatnitsa"
                    => events[i].start_datetime = DateTime(2024, 8, 23, 22, 55)

\* the table of test_get_schedule_events, parsed to the end
C4_Witness ==
    /\ pc = "done"
    /\ academic_year = 2023
    /\ soup = TestTable
    /\ Len(events) = 2
    /\ GoverningName(soup, origin[2].row) = "Subbota"
    /\ events[2].start_datetime = DateTime(2024, 8, 24, 22, 55)
    /\ events[2].end_datetime = DateTime(2024, 8, 24, 23, 0)

\* C5 as stated: every Event yielded has start_datetime < end_datetime.
C5_StartBeforeEnd ==
    \A i \in 1..Len(events) :
        DateTimeLess(events[i].start_datetime, events[i].end_datetime)

\* C5 amended: an Event yielded for a row with time column HH:MM-HH:MM has
\* start_datetime < end_datetime exactly when the start time of the column is
\* earlier than its end time; a row whose end time is not later than its start time
\* is accepted and yields Events with end_datetime <= start_datetime.
C5_StartBeforeEndIffTimesOrdered ==
    \A i \in 1..Len(events) :
        LET time == soup[origin[i].row].cells[2]
        IN  IsHHMM(time) =>
              ( DateTimeLess(events[i].start_datetime, events[i].end_datetime)
                  <=> StartOfDay(time) < EndOfDay(time) )

\* both kinds of row have yielded an Event
C5_Witness ==
    /\ \E i \in 1..Len(events) :
          /\ StartOfDay(soup[origin[i].row].cells[2]) < EndOfDay(soup[origin[i].row].cells[2])
          /\ DateTimeLess(events[i].start_datetime, events[i].end_datetime)
    /\ \E i \in 1..Len(events) :
          /\ StartOfDay(soup[origin[i].row].cells[2]) > EndOfDay(soup[origin[i].row].cells[2])
          /\ DateTimeLess(events[i].end_datetime, events[i].start_datetime)

RECURSIVE ListedInDataRows(_, _)
\* the week numbers listed in the rows 1..n that are not noinfo rows, counted
ListedInDataRows(table, n) ==
    IF n = 0 THEN 0
    ELSE ListedInDataRows(table, n - 1)
         + (IF IsDataRow(table[n]) THEN CountListed(table[n].cells[3]) ELSE 0)

\* C6: no Event is yielded for a row whose class list contains noinfo, whatever its
\* cells and whether or not it is a dayheader row too; when the generator returns,
\* the number of Events equals the number of week numbers listed in the other rows.
C6_NoInfoRowsYieldNothing ==
    /\ \A i \in 1..Len(events) : "noinfo" \notin soup[origin[i].row].class
    /\ \A r \in DoneRows : "noinfo" \in soup[r].class => EventsOfRow(r) = {}
    /\ pc = "done" => Len(events) = ListedInDataRows(soup, Len(soup))

\* a table parsed to the end with a noinfo row that has the cells of a data row,
\* one of them a dayheader row, and a row that yielded Events
C6_Witness ==
    /\ pc = "done"
    /\ Len(events) > 0
    /\ \E r \in 1..Len(soup) :
          /\ soup[r].class = {"noinfo", "dayheader"}
          /\ Len(soup[r].cells) = 8
    /\ \E r \in 1..Len(soup) :
          /\ soup[r].class = {"noinfo"}
          /\ Len(soup[r].cells) = 8

\* C7: a data row that lists k week numbers yields exactly k Events, one per listed
\* week in listed order, with the same title, event_type, participant, location and
\* comment, the starts (and ends) of any two of them 7 days times the difference of
\* their week numbers apart.
C7_OneEventPerListedWeek ==
    \A r \in DoneRows :
        IsDataRow(soup[r]) =>
            /\ Cardinality(EventsOfRow(r)) = CountListed(soup[r].cells[3])
            /\ \A i \in EventsOfRow(r) : origin[i].k \in 1..CountListed(soup[r].cells[3])
            /\ \A i, j \in EventsOfRow(r) :
                LET wi == ListedWeek(soup[r].cells[3], origin[i].k)
                    wj == ListedWeek(soup[r].cells[3], origin[j].k)
                IN  /\ i < j <=> origin[i].k < origin[j].k
                    /\ events[i].title = events[j].title
                    /\ events[i].event_type = events[j].event_type
                    /\ events[i].participant = events[j].participant
                    /\ events[i].location = events[j].location
                    /\ events[i].comment = events[j].comment
                    /\ events[i].start_datetime.ordinal - events[j].start_datetime.ordinal
                         = 7 * (wi - wj)
                    /\ events[i].start_datetime.minute = events[j].start_datetime.minute
                    /\ events[i].end_datetime.ordinal - events[j].end_datetime.ordinal
                         = 7 * (wi - wj)
                    /\ events[i].end_datetime.minute = events[j].end_datetime.minute

\* a row listing weeks 3, 1 and 5 has yielded its three Events, in that order
C7_Witness ==
    \E r \in DoneRows :
        /\ IsDataRow(soup[r])
        /\ soup[r].cells[3] = "3 1  5"
        /\ Cardinality(EventsOfRow(r)) = 3
        /\ \E i \in EventsOfRow(r) :
              /\ EventsOfRow(r) = {i, i + 1, i + 2}
              /\ events[i].start_datetime.ordinal - events[i + 1].start_datetime.ordinal = 14
              /\ events[i + 2].start_datetime.ordinal - events[i + 1].start_datetime.ordinal = 28

C10_WeekdayOfGoverningHeader ==
    /\ \A i \in 1..Len(events) :
          /\ origin[i].weekday_index = GoverningWeekday(soup, origin[i].row)
          /\ (IsHHMM(soup[origin[i].row].cells[2])
                /\ StartOfDay(soup[origin[i].row].cells[2]) < 1440)
              => IsMonday(events[i].start_datetime.ordinal
                            - GoverningWeekday(soup, origin[i].row))
    /\ pc = "weeks" => weekday_index = GoverningWeekday(soup, row_idx)

\* an Event governed by a noinfo dayheader row, after an earlier header row
C10_Witness ==
    \E i \in 1..Len(events) :
        LET r == origin[i].row
            h == SetMax(HeaderRowsUpTo(soup, r))
        IN  /\ HeaderRowsUpTo(soup, r) # {}
            /\ h < r
            /\ "noinfo" \in soup[h].class
            /\ \E g \in HeaderRowsUpTo(soup, r) :
                  g < h /\ soup[g].cells[1] # soup[h].cells[1]
            /\ origin[i].weekday_index = DayNumber(soup[h].cells[1])

====
